---- MODULE Spec2Model ----
(***************************************************************************)
(* Model of firejail's D-Bus mediation (src/firejail/dbus.c): the proxy    *)
(* lifecycle (dbus_proxy_start / dbus_proxy_stop), the verified bind-mount *)
(* overlay (socket_overlay) and the policy orchestration                   *)
(* (dbus_apply_policy).  C strings are sequences of one-character strings; *)
(* the arguments pipe is a sequence of bytes in which NUL ends each string.*)
(***************************************************************************)
EXTENDS Integers, Sequences, FiniteSets, TLC

\* ------------------------------------------------------------------------
\* Bounds of the model
\* ------------------------------------------------------------------------
\* longest profile (number of lines) drawn in Init
MaxProfileLen == 1
\* number of calls of start / apply / stop made by the orchestrating process
MaxCalls == 3
\* number of times another actor replaces an object in the staging directory
MaxRules == 3
MaxNameLen == 4
MaxSubst == 1

\* ------------------------------------------------------------------------
\* String constants of dbus.c
\* ------------------------------------------------------------------------
\* "unix:path="
DBUS_SOCKET_PATH_PREFIX ==
    <<"u","n","i","x",":","p","a","t","h","=">>
\* "/run/user/%d/bus"
DBUS_USER_SOCKET_FORMAT ==
    <<"/","r","u","n","/","u","s","e","r","/","%","d","/","b","u","s">>
\* "/run/dbus/system_bus_socket"
DBUS_SYSTEM_SOCKET ==
    <<"/","r","u","n","/","d","b","u","s","/","s","y","s","t","e","m","_","b","u","s","_","s","o","c","k","e","t">>
\* "/run/firejail/dbus"
RUN_FIREJAIL_DBUS_DIR ==
    <<"/","r","u","n","/","f","i","r","e","j","a","i","l","/","d","b","u","s">>
\* "/%d"
UserDirSuffix ==
    <<"/","%","d">>
\* "/%d-user"
UserProxySuffix ==
    <<"/","%","d","-","u","s","e","r">>
\* "/%d-system"
SystemProxySuffix ==
    <<"/","%","d","-","s","y","s","t","e","m">>
\* "--filter"
FilterMarker ==
    <<"-","-","f","i","l","t","e","r">>
\* "--%.*s=%s"
ProfileArgFormat ==
    <<"-","-","%",".","*","s","=","%","s">>
\* "dbus-user."
UserRulePrefix ==
    <<"d","b","u","s","-","u","s","e","r",".">>
\* "dbus-system."
SystemRulePrefix ==
    <<"d","b","u","s","-","s","y","s","t","e","m",".">>
\* "%s/.dbus"
DotDbusFormat ==
    <<"%","s","/",".","d","b","u","s">>
\* "dbus-user.talk org.foo"
LineUserTalk ==
    <<"d","b","u","s","-","u","s","e","r",".","t","a","l","k"," ","o","r","g",".","f","o","o">>
\* "dbus-user.own"
LineUserOwn ==
    <<"d","b","u","s","-","u","s","e","r",".","o","w","n">>
\* "dbus-system.own a.b"
LineSystemOwn ==
    <<"d","b","u","s","-","s","y","s","t","e","m",".","o","w","n"," ","a",".","b">>
\* "other.rule x"
LineOther ==
    <<"o","t","h","e","r",".","r","u","l","e"," ","x">>
\* "dbus-user.see a b"
LineUserSee ==
    <<"d","b","u","s","-","u","s","e","r",".","s","e","e"," ","a"," ","b">>
\* "dbus-system.talk c.d"
LineSystemTalk ==
    <<"d","b","u","s","-","s","y","s","t","e","m",".","t","a","l","k"," ","c",".","d">>
\* "dbus-user"
UserBusPrefix ==
    <<"d","b","u","s","-","u","s","e","r">>
\* "dbus-system"
SystemBusPrefix ==
    <<"d","b","u","s","-","s","y","s","t","e","m">>
\* the printable characters in ASCII order, '!' (33) to '~' (126); the
\* double quote, the backslash and the backtick are written by name
Printable ==
    <<"!","QUOTE","#","$","%","&","'","(",")","*","+",",","-",".","/","0",
      "1","2","3","4","5","6","7","8","9",":",";","<","=",">","?","@","A",
      "B","C","D","E","F","G","H","I","J","K","L","M","N","O","P","Q","R",
      "S","T","U","V","W","X","Y","Z","[","BACKSLASH","]","^","_","BACKTICK","a",
      "b","c","d","e","f","g","h","i","j","k","l","m","n","o","p","q","r",
      "s","t","u","v","w","x","y","z","{","|","}","~">>
\* "org"
NameOrg ==
    <<"o","r","g">>
\* "org..Bus"
NameEmptySegment ==
    <<"o","r","g",".",".","B","u","s">>
\* "org.Bus."
NameTrailingDot ==
    <<"o","r","g",".","B","u","s",".">>
\* "org.Bus*"
NameStarInSegment ==
    <<"o","r","g",".","B","u","s","*">>
\* "org.*.x"
NameStarInMiddle ==
    <<"o","r","g",".","*",".","x">>
\* "org.0bus"
NameDigitStart ==
    <<"o","r","g",".","0","b","u","s">>
\* "org.freedesktop.DBus"
NameDBus ==
    <<"o","r","g",".","f","r","e","e","d","e","s","k","t","o","p",".","D","B","u","s">>
\* "org.*"
NameOrgStar ==
    <<"o","r","g",".","*">>
\* "*"
NameStar ==
    <<"*">>
\* "unix:path=/tmp/bus"
EnvCustom ==
    <<"u","n","i","x",":","p","a","t","h","=","/","t","m","p","/","b","u","s">>
\* "unix:path=/run/user/1000/bus"
EnvDefault1000 ==
    <<"u","n","i","x",":","p","a","t","h","=","/","r","u","n","/","u","s","e","r","/","1","0","0","0","/","b","u","s">>
\* "unix:abstract=/tmp/a"
EnvAbstract ==
    <<"u","n","i","x",":","a","b","s","t","r","a","c","t","=","/","t","m","p","/","a">>
\* "unix:path=/tmp/a%3db"
EnvEscaped ==
    <<"u","n","i","x",":","p","a","t","h","=","/","t","m","p","/","a","%","3","d","b">>
\* "/home/u"
HomeDir ==
    <<"/","h","o","m","e","/","u">>

\* the byte that ends every string on the arguments pipe
NUL == "NUL"
\* a null char pointer (no character of a string is longer than one letter)
NULL == <<"(null)">>

\* ------------------------------------------------------------------------
\* libc helpers, computed as libc computes them
\* ------------------------------------------------------------------------
Digit(n) ==
    CASE n = 0 -> "0" [] n = 1 -> "1" [] n = 2 -> "2" [] n = 3 -> "3"
      [] n = 4 -> "4" [] n = 5 -> "5" [] n = 6 -> "6" [] n = 7 -> "7"
      [] n = 8 -> "8" [] n = 9 -> "9"

DigitValue(c) ==
    CASE c = "0" -> 0 [] c = "1" -> 1 [] c = "2" -> 2 [] c = "3" -> 3
      [] c = "4" -> 4 [] c = "5" -> 5 [] c = "6" -> 6 [] c = "7" -> 7
      [] c = "8" -> 8 [] c = "9" -> 9

DigitChars == {"0", "1", "2", "3", "4", "5", "6", "7", "8", "9"}

\* "%d" of a non-negative int
RECURSIVE IntToStr(_)
IntToStr(n) ==
    IF n < 10 THEN <<Digit(n)>>
    ELSE IntToStr(n \div 10) \o <<Digit(n % 10)>>

\* right-justify s in a field of width w ("%<w>d")
RECURSIVE PadLeft(_, _)
PadLeft(s, w) ==
    IF Len(s) >= w THEN s ELSE PadLeft(<<" ">> \o s, w)

\* the first n characters of s ("%.*s")
Take(s, n) ==
    SubSeq(s, 1, IF n < Len(s) THEN n ELSE Len(s))

\* strncmp(a, b, n) == 0, for n = strlen(a)
StrNEq(a, b, n) ==
    /\ Len(b) >= n
    /\ Len(a) >= n
    /\ SubSeq(a, 1, n) = SubSeq(b, 1, n)

\* values a variadic function reads where the caller passed no argument
Garbage == {0, 42}

\* the k-th variadic int: the caller's, or whatever the register holds
IntArg(args, k, g) ==
    IF k <= Len(args) THEN args[k] ELSE g

\* the position of the next '%' of fmt at or after i, Len(fmt) + 1 if none
NextPercent(fmt, i) ==
    LET marks == {j \in i..Len(fmt) : fmt[j] = "%"}
    IN  IF marks = {} THEN Len(fmt) + 1
        ELSE CHOOSE j \in marks : \A q \in marks : j <= q

\* vasprintf(&arg, fmt, args): ordinary characters are copied, and the
\* conversions %%, %d, %<w>d, %s and %.*s are expanded
RECURSIVE Format(_, _, _, _, _)
Format(fmt, i, args, k, g) ==
    IF i > Len(fmt) THEN <<>>
    ELSE IF fmt[i] # "%"
        THEN SubSeq(fmt, i, NextPercent(fmt, i) - 1)
                 \o Format(fmt, NextPercent(fmt, i), args, k, g)
    ELSE IF i + 1 > Len(fmt) THEN <<>>
    ELSE IF fmt[i + 1] = "%" THEN <<"%">> \o Format(fmt, i + 2, args, k, g)
    ELSE IF fmt[i + 1] = "d"
        THEN IntToStr(IntArg(args, k, g)) \o Format(fmt, i + 2, args, k + 1, g)
    ELSE IF fmt[i + 1] = "s"
        THEN args[k] \o Format(fmt, i + 2, args, k + 1, g)
    ELSE IF /\ i + 3 <= Len(fmt)
            /\ fmt[i + 1] = "." /\ fmt[i + 2] = "*" /\ fmt[i + 3] = "s"
        THEN Take(args[k + 1], args[k]) \o Format(fmt, i + 4, args, k + 2, g)
    ELSE IF /\ i + 2 <= Len(fmt)
            /\ fmt[i + 1] \in DigitChars /\ fmt[i + 2] = "d"
        THEN PadLeft(IntToStr(IntArg(args, k, g)), DigitValue(fmt[i + 1]))
                 \o Format(fmt, i + 3, args, k + 1, g)
    ELSE <<>>

asprintf(fmt, args) == Format(fmt, 1, args, 1, 0)

\* the bytes one write_arg(fd, format, ...) puts on the pipe: the formatted
\* string and its terminating NUL (length++)
write_arg(format, args, g) ==
    Format(format, 1, args, 1, g) \o <<NUL>>

\* variant: the name runs up to the last ' ' of data
ArgLength_LastSpace(data) ==
    LET spaces == {j \in 1..Len(data) : data[j] = " "}
    IN  IF spaces = {} THEN Len(data)
        ELSE (CHOOSE j \in spaces : \A q \in spaces : j >= q) - 1

\* number of characters of data before the first ' ' or the end
ArgLength(data) ==
    LET spaces == {j \in 1..Len(data) : data[j] = " "}
    IN  IF spaces = {} THEN Len(data)
        ELSE (CHOOSE j \in spaces : \A q \in spaces : j <= q) - 1

\* the bytes write_profile(fd, prefix) puts on the pipe for the list lines
RECURSIVE write_profile(_, _)
write_profile(lines, prefix) ==
    IF lines = <<>> THEN <<>>
    ELSE LET it == Head(lines)
             rest == write_profile(Tail(lines), prefix)
         IN  IF ~StrNEq(prefix, it, Len(prefix)) THEN rest
             ELSE LET data == SubSeq(it, Len(prefix) + 1, Len(it))
                      arg_length == ArgLength(data)
                  IN  IF arg_length >= Len(data) THEN rest
                      ELSE write_arg(ProfileArgFormat,
                                     <<arg_length, data,
                                       SubSeq(data, arg_length + 2, Len(data))>>,
                                     0) \o rest

\* #define DBUS_MAX_NAME_LENGTH 255
DBUS_MAX_NAME_LENGTH == 255

\* the value of a character, as the comparisons *p >= 'a' ... use it
Ord(c) == 32 + CHOOSE i \in 1..Len(Printable) : Printable[i] = c

\* format strings assembled by the preprocessor
DBUS_USER_SOCKET_PATH_FORMAT == DBUS_SOCKET_PATH_PREFIX \o DBUS_USER_SOCKET_FORMAT
DBUS_SYSTEM_SOCKET_PATH == DBUS_SOCKET_PATH_PREFIX \o DBUS_SYSTEM_SOCKET
DBUS_USER_DIR_FORMAT == RUN_FIREJAIL_DBUS_DIR \o UserDirSuffix
\* variant: the proxy socket path built as a socket address
DBUS_USER_PROXY_SOCKET_FORMAT_Address ==
    DBUS_SOCKET_PATH_PREFIX \o DBUS_USER_DIR_FORMAT \o UserProxySuffix
DBUS_USER_PROXY_SOCKET_FORMAT == DBUS_USER_DIR_FORMAT \o UserProxySuffix
DBUS_SYSTEM_PROXY_SOCKET_FORMAT == DBUS_USER_DIR_FORMAT \o SystemProxySuffix

\* ------------------------------------------------------------------------
\* Input domains
\* ------------------------------------------------------------------------
DbusPolicy == {"ALLOW", "FILTER", "BLOCK"}
Uids == {1000}
Pids == {4242}
ChildPids == {4243}
PipeFds == {3}
ProfileLines == {LineUserTalk, LineUserOwn, LineSystemOwn, LineOther}
Profiles == UNION {[1..n -> ProfileLines] : n \in 0..MaxProfileLen}
\* profiles given to the profile functions when they are applied alone
RuleLines == ProfileLines \cup {LineUserSee, LineSystemTalk}
RuleProfiles == UNION {[1..n -> RuleLines] : n \in 0..MaxRules}
\* names given to dbus_check_name: every string of up to MaxNameLen of
\* these characters, the names of the examples, and names of the longest
\* length allowed and one more
NameChars == {"a", "Z", "0", "_", "-", ".", "*", "@"}
LongName(n) == [i \in 1..n |-> IF i = 2 THEN "." ELSE "a"]
ExampleNames ==
    {NameOrg, NameEmptySegment, NameTrailingDot, NameStarInSegment,
     NameStarInMiddle, NameDigitStart, NameDBus, NameOrgStar, NameStar,
     LongName(DBUS_MAX_NAME_LENGTH), LongName(DBUS_MAX_NAME_LENGTH + 1)}
Names == UNION {[1..n -> NameChars] : n \in 0..MaxNameLen} \cup ExampleNames
EnvValues == {NULL, EnvDefault1000, EnvCustom, EnvAbstract, EnvEscaped}

\* file types of the objects that can sit at a proxy socket path
ObjType ==
    [proxy_user_sock |-> "S_IFSOCK", proxy_system_sock |-> "S_IFSOCK",
     other_sock |-> "S_IFSOCK", other_file |-> "S_IFREG",
     other_link |-> "S_IFLNK", link_target |-> "S_IFREG"]
Substitutes == {"other_sock", "other_file", "other_link", "absent"}
Slots == {"user", "system"}

VARIABLES
    arg_dbus_user, arg_dbus_system, profile, uid, pid_self, cfg_dbus,
    env,
    dbus_proxy_pid, dbus_proxy_status_fd,
    dbus_user_proxy_socket, dbus_system_proxy_socket, heap,
    pc, exit_status, calls, op, last_ret,
    args_pipe, args_w, status_w, status_r, status_pipe, read_bytes,
    proxy, proxy_exit,
    fs, mounts, hidden, dbus_dir_exists, euid, warnings, substs,
    ov, frame,
    scan

inputs == <<arg_dbus_user, arg_dbus_system, profile, uid, pid_self, cfg_dbus>>
handle == <<dbus_proxy_pid, dbus_proxy_status_fd,
            dbus_user_proxy_socket, dbus_system_proxy_socket, heap>>
ctl == <<pc, exit_status, calls, op, last_ret>>
pipes == <<args_pipe, args_w, status_w, status_r, status_pipe, read_bytes>>
proxyv == <<proxy, proxy_exit>>
world == <<fs, mounts, hidden, dbus_dir_exists, euid, warnings, substs, env>>
locals == <<ov, frame>>
vars == <<inputs, handle, ctl, pipes, proxyv, world, locals, scan>>

NoOverlay ==
    [target |-> NULL, path |-> NULL, fd |-> "closed", checked |-> FALSE,
     ret |-> "none"]
NoFrame == [new_path |-> NULL, orig_path |-> NULL]

\* dbus_check_name has not been called: no name, no scan position
NoScan == [name |-> <<>>, p |-> 0, segments |-> 0, in_segment |-> FALSE,
           ret |-> "none"]

\* the file-scope statics as initialised, no pipe, no proxy, nothing
\* mounted or hidden, the real user in effect, nothing written to stderr
Constructed ==
    /\ dbus_proxy_pid = 0
    /\ dbus_proxy_status_fd = -1
    /\ dbus_user_proxy_socket = NULL
    /\ dbus_system_proxy_socket = NULL
    /\ heap = [user |-> "none", system |-> "none"]
    /\ pc = "idle"
    /\ exit_status = 0
    /\ calls = 0
    /\ op = "none"
    /\ last_ret = "none"
    /\ args_pipe = <<>>
    /\ args_w = "none"
    /\ status_w = "none"
    /\ status_r = "none"
    /\ status_pipe = 0
    /\ read_bytes = "none"
    /\ proxy = "none"
    /\ proxy_exit = 0
    /\ fs = [s \in Slots |-> "absent"]
    /\ mounts = {}
    /\ hidden = {}
    /\ euid = "user"
    /\ warnings = <<>>
    /\ substs = 0
    /\ ov = NoOverlay
    /\ frame = NoFrame

Init ==
    /\ arg_dbus_user \in DbusPolicy
    /\ arg_dbus_system \in DbusPolicy
    /\ profile \in Profiles
    /\ uid \in Uids
    /\ pid_self \in Pids
    /\ cfg_dbus \in BOOLEAN
    /\ env \in EnvValues
    /\ dbus_dir_exists \in BOOLEAN
    /\ Constructed
    /\ scan = NoScan

\* errExit(msg) / exit(status): the process ends with a non-zero status
Exit(status) ==
    /\ pc' = "exited"
    /\ exit_status' = status
    /\ UNCHANGED <<calls, op, last_ret>>

Goto(label) ==
    /\ pc' = label
    /\ UNCHANGED <<exit_status, calls, op, last_ret>>

\* the orchestrating process calls one of the three entry points
CallGuard ==
    /\ pc = "idle"
    /\ calls < MaxCalls

Enter(name, label) ==
    /\ pc' = label
    /\ calls' = calls + 1
    /\ op' = name
    /\ UNCHANGED <<exit_status, last_ret>>

EnterExit(name, status) ==
    /\ pc' = "exited"
    /\ exit_status' = status
    /\ calls' = calls + 1
    /\ op' = name
    /\ UNCHANGED last_ret

\* a call that returns before any other process can act
EnterReturn(name) ==
    /\ pc' = "idle"
    /\ calls' = calls + 1
    /\ op' = name
    /\ last_ret' = name
    /\ UNCHANGED exit_status

Return(name) ==
    /\ pc' = "idle"
    /\ last_ret' = name
    /\ UNCHANGED <<exit_status, calls, op>>

\* ------------------------------------------------------------------------
\* dbus_proxy_start
\* ------------------------------------------------------------------------
\* the proxy socket paths asprintf builds from getuid() and getpid()
UserProxyPath == asprintf(DBUS_USER_PROXY_SOCKET_FORMAT, <<uid, pid_self>>)
SystemProxyPath == asprintf(DBUS_SYSTEM_PROXY_SOCKET_FORMAT, <<uid, pid_self>>)

\* dbus_create_user_dir: the per-user directory is created below the
\* staging directory; mkdir or set_perms failing is fatal (mkdir fails
\* when the staging directory is missing or has been hidden)
StartCreateDir ==
    /\ CallGuard
    /\ \E ok \in BOOLEAN :
          IF dbus_dir_exists /\ RUN_FIREJAIL_DBUS_DIR \notin hidden /\ ok
          THEN Enter("start", "start_status_pipe")
          ELSE EnterExit("start", 1)
    /\ UNCHANGED <<inputs, scan, handle, pipes, proxyv, world, locals>>

StartStatusPipe ==
    /\ pc = "start_status_pipe"
    /\ \/ /\ \E fd \in PipeFds : dbus_proxy_status_fd' = fd
          /\ status_r' = "open"
          /\ status_w' = "open"
          /\ status_pipe' = 0
          /\ read_bytes' = "none"
          /\ Goto("start_args_pipe")
       \/ /\ Exit(1)
          /\ UNCHANGED <<dbus_proxy_status_fd, status_r, status_w, status_pipe,
                         read_bytes>>
    /\ UNCHANGED <<inputs, scan, dbus_proxy_pid, dbus_user_proxy_socket,
                   dbus_system_proxy_socket, heap, args_pipe, args_w,
                   proxyv, world, locals>>

\* variant: a failing pipe() makes start return instead of ending the process
StartArgsPipe_ReturnsOnError ==
    /\ pc = "start_args_pipe"
    /\ \/ /\ args_pipe' = <<>>
          /\ args_w' = "open"
          /\ Goto("start_fork")
       \/ /\ Return("start")
          /\ UNCHANGED <<args_pipe, args_w>>
    /\ UNCHANGED <<inputs, scan, handle, status_w, status_r, status_pipe, read_bytes,
                   proxyv, world, locals>>

\* if (pipe(args_pipe) == -1) errExit("pipe")
StartArgsPipe ==
    /\ pc = "start_args_pipe"
    /\ \/ /\ args_pipe' = <<>>
          /\ args_w' = "open"
          /\ Goto("start_fork")
       \/ /\ Exit(1)
          /\ UNCHANGED <<args_pipe, args_w>>
    /\ UNCHANGED <<inputs, scan, handle, status_w, status_r, status_pipe, read_bytes,
                   proxyv, world, locals>>

\* fork(): the child execs the proxy with the two pipe ends it keeps
StartFork ==
    /\ pc = "start_fork"
    /\ \/ /\ \E p \in ChildPids : dbus_proxy_pid' = p
          /\ proxy' = "running"
          /\ proxy_exit' = 0
          /\ Goto("start_close_child_ends")
       \/ /\ dbus_proxy_pid' = -1
          /\ Exit(1)
          /\ UNCHANGED proxyv
    /\ UNCHANGED <<inputs, scan, dbus_proxy_status_fd, dbus_user_proxy_socket,
                   dbus_system_proxy_socket, heap, pipes, world, locals>>

\* variant: the parent keeps its copy of the status write end open
StartCloseChildEnds_KeepsStatusWrite ==
    /\ pc = "start_close_child_ends"
    /\ \/ /\ Goto("start_user")
          /\ UNCHANGED status_w
       \/ /\ Exit(1)
          /\ UNCHANGED status_w
    /\ UNCHANGED <<inputs, scan, handle, args_pipe, args_w, status_r, status_pipe,
                   read_bytes, proxyv, world, locals>>

\* close(status_pipe[1]); close(args_pipe[0]): the parent's copies of the
\* ends the child uses
StartCloseChildEnds ==
    /\ pc = "start_close_child_ends"
    /\ \/ /\ status_w' = "closed"
          /\ Goto("start_user")
       \/ /\ Exit(1)
          /\ UNCHANGED status_w
    /\ UNCHANGED <<inputs, scan, handle, args_pipe, args_w, status_r, status_pipe,
                   read_bytes, proxyv, world, locals>>

\* the bytes of the user-bus section, g being what a conversion without
\* argument reads
UserSection(g) ==
    (IF env = NULL
        THEN write_arg(DBUS_USER_SOCKET_PATH_FORMAT, <<uid>>, g)
        ELSE write_arg(env, <<>>, g))
    \o write_arg(UserProxyPath, <<>>, g)
    \o write_arg(FilterMarker, <<>>, g)
    \o write_profile(profile, UserRulePrefix)

SystemSection(g) ==
    write_arg(DBUS_SYSTEM_SOCKET_PATH, <<>>, g)
    \o write_arg(SystemProxyPath, <<>>, g)
    \o write_arg(FilterMarker, <<>>, g)
    \o write_profile(profile, SystemRulePrefix)

StartWriteUser ==
    /\ pc = "start_user"
    /\ args_w = "open"
    /\ IF arg_dbus_user = "FILTER"
       THEN \/ /\ \E g \in Garbage : args_pipe' = args_pipe \o UserSection(g)
               /\ dbus_user_proxy_socket' = UserProxyPath
               /\ heap' = [heap EXCEPT !.user = "live"]
               /\ Goto("start_system")
            \/ /\ Exit(1)
               /\ UNCHANGED <<args_pipe, dbus_user_proxy_socket, heap>>
       ELSE /\ Goto("start_system")
            /\ UNCHANGED <<args_pipe, dbus_user_proxy_socket, heap>>
    /\ UNCHANGED <<inputs, scan, dbus_proxy_pid, dbus_proxy_status_fd,
                   dbus_system_proxy_socket, args_w, status_w, status_r,
                   status_pipe, read_bytes, proxyv, world, locals>>

StartWriteSystem ==
    /\ pc = "start_system"
    /\ args_w = "open"
    /\ IF arg_dbus_system = "FILTER"
       THEN \/ /\ \E g \in Garbage : args_pipe' = args_pipe \o SystemSection(g)
               /\ dbus_system_proxy_socket' = SystemProxyPath
               /\ heap' = [heap EXCEPT !.system = "live"]
               /\ Goto("start_close_args")
            \/ /\ Exit(1)
               /\ UNCHANGED <<args_pipe, dbus_system_proxy_socket, heap>>
       ELSE /\ Goto("start_close_args")
            /\ UNCHANGED <<args_pipe, dbus_system_proxy_socket, heap>>
    /\ UNCHANGED <<inputs, scan, dbus_proxy_pid, dbus_proxy_status_fd,
                   dbus_user_proxy_socket, args_w, status_w, status_r,
                   status_pipe, read_bytes, proxyv, world, locals>>

StartCloseArgs ==
    /\ pc = "start_close_args"
    /\ \/ /\ args_w' = "closed"
          /\ Goto("start_read")
       \/ /\ Exit(1)
          /\ UNCHANGED args_w
    /\ UNCHANGED <<inputs, scan, handle, args_pipe, status_w, status_r, status_pipe,
                   read_bytes, proxyv, world, locals>>

\* variant: end-of-file on the status pipe taken for readiness
StartRead_ReturnsOnEof ==
    /\ pc = "start_read"
    /\ \/ /\ status_pipe >= 1
          /\ status_pipe' = status_pipe - 1
          /\ read_bytes' = "1"
          /\ Return("start")
       \/ /\ status_pipe = 0
          /\ status_w = "closed"
          /\ proxy \in {"closing", "exited"}
          /\ read_bytes' = "0"
          /\ Return("start")
          /\ UNCHANGED status_pipe
       \/ /\ read_bytes' = "-1"
          /\ Exit(1)
          /\ UNCHANGED status_pipe
    /\ UNCHANGED <<inputs, scan, handle, args_pipe, args_w, status_w, status_r,
                   proxyv, world, locals>>

\* read(status_pipe[0], buf, 1): one byte if the proxy wrote one, 0 once
\* every write end is closed, -1 on error
StartRead ==
    /\ pc = "start_read"
    /\ \/ /\ status_pipe >= 1
          /\ status_pipe' = status_pipe - 1
          /\ read_bytes' = "1"
          /\ Return("start")
       \/ /\ status_pipe = 0
          /\ status_w = "closed"
          /\ proxy \in {"closing", "exited"}
          /\ read_bytes' = "0"
          /\ Goto("start_wait")
          /\ UNCHANGED status_pipe
       \/ /\ read_bytes' = "-1"
          /\ Exit(1)
          /\ UNCHANGED status_pipe
    /\ UNCHANGED <<inputs, scan, handle, args_pipe, args_w, status_w, status_r,
                   proxyv, world, locals>>

\* case 0: waitpid(dbus_proxy_pid, NULL, 0); exit(-1)
StartWait ==
    /\ pc = "start_wait"
    /\ proxy = "exited"
    /\ Exit(255)
    /\ UNCHANGED <<inputs, scan, handle, pipes, proxyv, world, locals>>

\* ------------------------------------------------------------------------
\* The filtering proxy (xdg-dbus-proxy), an external program
\* ------------------------------------------------------------------------
\* the NUL-terminated strings of a byte stream
Strings(bytes) ==
    LET nul == {i \in 1..Len(bytes) : bytes[i] = NUL}
        pos(k) == CHOOSE p \in nul : Cardinality({q \in nul : q < p}) = k - 1
    IN  [k \in 1..Cardinality(nul) |->
            SubSeq(bytes, IF k = 1 THEN 1 ELSE pos(k - 1) + 1, pos(k) - 1)]

Range(f) == {f[i] : i \in DOMAIN f}

\* the proxy reads its arguments up to end-of-stream, then binds a socket
\* at each proxy path it was given and writes the ready byte ...
ProxyReady ==
    /\ proxy = "running"
    /\ args_w = "closed"
    /\ proxy' = "ready"
    /\ status_pipe' = status_pipe + 1
    /\ fs' = [s \in Slots |->
                IF s = "user" /\ UserProxyPath \in Range(Strings(args_pipe))
                    THEN "proxy_user_sock"
                ELSE IF s = "system"
                        /\ SystemProxyPath \in Range(Strings(args_pipe))
                    THEN "proxy_system_sock"
                ELSE fs[s]]
    /\ UNCHANGED <<inputs, scan, handle, ctl, args_pipe, args_w, status_w, status_r,
                   read_bytes, proxy_exit, mounts, hidden, dbus_dir_exists,
                   euid, warnings, substs, env, locals>>

\* ... or leaves at any time, with or without an error: its descriptors
\* are closed first ...
ProxyClose ==
    /\ proxy \in {"running", "ready"}
    /\ proxy' = "closing"
    /\ UNCHANGED <<inputs, scan, handle, ctl, pipes, proxy_exit, world, locals>>

\* ... and then it can be waited for
ProxyExit ==
    /\ proxy = "closing"
    /\ proxy' = "exited"
    /\ \E code \in {0, 1} : proxy_exit' = code
    /\ UNCHANGED <<inputs, scan, handle, ctl, pipes, world, locals>>

\* ------------------------------------------------------------------------
\* dbus_proxy_stop
\* ------------------------------------------------------------------------
\* variant: stop warns about the proxy even when none was started
StopNoop_Warns ==
    /\ CallGuard
    /\ dbus_proxy_pid = 0
    /\ EnterReturn("stop")
    /\ warnings' = Append(warnings, "proxy_returned")
    /\ UNCHANGED <<inputs, scan, handle, pipes, proxyv, fs, mounts, hidden,
                   dbus_dir_exists, euid, substs, env, locals>>

\* if (dbus_proxy_pid == 0) return;
StopNoop ==
    /\ CallGuard
    /\ dbus_proxy_pid = 0
    /\ EnterReturn("stop")
    /\ UNCHANGED <<inputs, scan, handle, pipes, proxyv, world, locals>>

\* assert(dbus_proxy_status_fd >= 0); close(dbus_proxy_status_fd)
StopClose ==
    /\ CallGuard
    /\ dbus_proxy_pid # 0
    /\ \/ /\ dbus_proxy_status_fd >= 0
          /\ status_r' = "closed"
          /\ Enter("stop", "stop_wait")
       \/ /\ EnterExit("stop", IF dbus_proxy_status_fd >= 0 THEN 1 ELSE 134)
          /\ UNCHANGED status_r
    /\ UNCHANGED <<inputs, scan, handle, args_pipe, args_w, status_w, status_pipe,
                   read_bytes, proxyv, world, locals>>

\* waitpid(dbus_proxy_pid, &status, 0), then the warning about a non-zero
\* exit code.  The warning formats an int with %s: the call may print
\* something, print nothing (quiet) or fault.
StopWait ==
    /\ pc = "stop_wait"
    /\ proxy = "exited"
    /\ \/ /\ proxy_exit = 0
          /\ Goto("stop_clear")
          /\ UNCHANGED warnings
       \/ /\ proxy_exit # 0
          /\ \/ /\ warnings' = Append(warnings, "proxy_returned")
                /\ Goto("stop_clear")
             \/ /\ Goto("stop_clear")
                /\ UNCHANGED warnings
             \/ /\ Exit(139)
                /\ UNCHANGED warnings
       \/ /\ Exit(1)
          /\ UNCHANGED warnings
    /\ UNCHANGED <<inputs, scan, handle, pipes, proxyv, fs, mounts, hidden,
                   dbus_dir_exists, euid, substs, env, locals>>

\* free(p) of a string in allocation state st: releasing a string that was
\* already released is undefined; the allocator aborts or goes on
FreeAborts(st) == st = "freed"

\* variant: the system socket path is not cleared
StopClear_KeepsSystemSocket ==
    /\ pc = "stop_clear"
    /\ \/ /\ dbus_proxy_pid' = 0
          /\ dbus_proxy_status_fd' = -1
          /\ dbus_user_proxy_socket' = NULL
          /\ heap' = [heap EXCEPT !.user = "none"]
          /\ UNCHANGED dbus_system_proxy_socket
          /\ Return("stop")
       \/ /\ dbus_user_proxy_socket # NULL /\ FreeAborts(heap.user)
          /\ dbus_proxy_pid' = 0
          /\ dbus_proxy_status_fd' = -1
          /\ UNCHANGED <<dbus_user_proxy_socket, dbus_system_proxy_socket, heap>>
          /\ Exit(134)
    /\ UNCHANGED <<inputs, scan, pipes, proxyv, world, locals>>

\* pid, descriptor and both socket paths are cleared
StopClear ==
    /\ pc = "stop_clear"
    /\ \/ /\ dbus_proxy_pid' = 0
          /\ dbus_proxy_status_fd' = -1
          /\ dbus_user_proxy_socket' = NULL
          /\ dbus_system_proxy_socket' = NULL
          /\ heap' = [user |-> "none", system |-> "none"]
          /\ Return("stop")
       \/ /\ \/ dbus_user_proxy_socket # NULL /\ FreeAborts(heap.user)
             \/ dbus_system_proxy_socket # NULL /\ FreeAborts(heap.system)
          /\ dbus_proxy_pid' = 0
          /\ dbus_proxy_status_fd' = -1
          /\ UNCHANGED <<dbus_user_proxy_socket, dbus_system_proxy_socket, heap>>
          /\ Exit(134)
    /\ UNCHANGED <<inputs, scan, pipes, proxyv, world, locals>>

\* the proxy leaves once its status channel is closed by the parent
ProxyShutdown ==
    /\ proxy \in {"running", "ready"}
    /\ status_r = "closed"
    /\ proxy' = "closing"
    /\ UNCHANGED <<inputs, scan, handle, ctl, pipes, proxy_exit, world, locals>>

\* ------------------------------------------------------------------------
\* socket_overlay
\* ------------------------------------------------------------------------
OverlayPcs == {"ov_open", "ov_fstat", "ov_mount", "ov_close"}

\* the object a path names now; nothing below a hidden staging directory
Lookup(path) ==
    IF RUN_FIREJAIL_DBUS_DIR \in hidden THEN "absent"
    ELSE IF path = UserProxyPath THEN fs["user"]
    ELSE IF path = SystemProxyPath THEN fs["system"]
    ELSE "absent"

\* mount(2) follows a symbolic link given as its source
Follow(obj) == IF ObjType[obj] = "S_IFLNK" THEN "link_target" ELSE obj

\* fd = safe_fd(proxy_path, O_PATH | O_NOFOLLOW | O_CLOEXEC)
OverlayOpen ==
    /\ pc = "ov_open"
    /\ \/ /\ Lookup(ov.path) # "absent"
          /\ ov' = [ov EXCEPT !.fd = Lookup(ov.path)]
          /\ Goto("ov_fstat")
       \/ /\ Exit(1)
          /\ UNCHANGED ov
    /\ UNCHANGED <<inputs, scan, handle, pipes, proxyv, world, frame>>

\* variant: the file type is not looked at
OverlayFstat_NoTypeCheck ==
    /\ pc = "ov_fstat"
    /\ \/ /\ ov' = [ov EXCEPT !.checked = TRUE]
          /\ Goto("ov_mount")
       \/ /\ Exit(1)
          /\ UNCHANGED ov
    /\ UNCHANGED <<inputs, scan, handle, pipes, proxyv, world, frame>>

\* fstat(fd, &s); S_ISSOCK(s.st_mode)
OverlayFstat ==
    /\ pc = "ov_fstat"
    /\ \/ /\ ObjType[ov.fd] = "S_IFSOCK"
          /\ ov' = [ov EXCEPT !.checked = TRUE]
          /\ Goto("ov_mount")
       \/ /\ Exit(1)
          /\ UNCHANGED ov
    /\ UNCHANGED <<inputs, scan, handle, pipes, proxyv, world, frame>>

\* what mount(source, target, NULL, MS_BIND | MS_REC, NULL) binds: the
\* object source names when the call is made
MountSource(path) == Lookup(path)

\* asprintf(&proxy_fd_path, "/proc/self/fd/%d", fd); mount(proxy_path, ...)
OverlayMount ==
    /\ pc = "ov_mount"
    /\ \/ /\ MountSource(ov.path) # "absent"
          /\ mounts' = mounts \cup
                {[target |-> ov.target, obj |-> Follow(MountSource(ov.path)),
                  opened |-> ov.fd, checked |-> ov.checked]}
          /\ Goto("ov_close")
       \/ /\ Exit(1)
          /\ UNCHANGED mounts
    /\ UNCHANGED <<inputs, scan, handle, pipes, proxyv, fs, hidden, dbus_dir_exists,
                   euid, warnings, substs, env, locals>>

\* free(proxy_fd_path); close(fd)
OverlayClose ==
    /\ pc = "ov_close"
    /\ Goto(ov.ret)
    /\ ov' = NoOverlay
    /\ UNCHANGED <<inputs, scan, handle, pipes, proxyv, world, frame>>

\* another actor of the invoking user replaces what the proxy socket path
\* being overlaid names, at any moment of the overlay (a replacement made
\* earlier leaves the file system as one made when the overlay begins)
Substitute ==
    /\ pc \in {"ov_open", "ov_fstat", "ov_mount"}
    /\ substs < MaxSubst
    /\ \E s \in Slots, o \in Substitutes :
          /\ ov.path = (IF s = "user" THEN UserProxyPath ELSE SystemProxyPath)
          /\ fs[s] # o
          /\ fs' = [fs EXCEPT ![s] = o]
    /\ substs' = substs + 1
    /\ UNCHANGED <<inputs, scan, handle, ctl, pipes, proxyv, mounts, hidden,
                   dbus_dir_exists, euid, warnings, env, locals>>

\* ------------------------------------------------------------------------
\* dbus_apply_policy
\* ------------------------------------------------------------------------
\* disable_socket_dir: hide the staging directory if stat() finds it
disable_socket_dir(h) ==
    IF dbus_dir_exists THEN h \cup {RUN_FIREJAIL_DBUS_DIR} ELSE h

\* a socket address without its "unix:path=" prefix (pointer + strlen)
SkipPrefix(path) ==
    SubSeq(path, Len(DBUS_SOCKET_PATH_PREFIX) + 1, Len(path))

\* EUID_ROOT(); both policies Allow: hide the staging directory, return
ApplyBothAllow ==
    /\ CallGuard
    /\ arg_dbus_user = "ALLOW" /\ arg_dbus_system = "ALLOW"
    /\ euid' = "root"
    /\ hidden' = disable_socket_dir(hidden)
    /\ EnterReturn("apply")
    /\ UNCHANGED <<inputs, scan, handle, pipes, proxyv, fs, mounts,
                   dbus_dir_exists, warnings, substs, env, locals>>

\* variant: the system bus is blocked before the configuration is looked at
ApplyDisabled_BlocksFirst ==
    /\ CallGuard
    /\ ~(arg_dbus_user = "ALLOW" /\ arg_dbus_system = "ALLOW")
    /\ ~cfg_dbus
    /\ euid' = "root"
    /\ hidden' = disable_socket_dir(hidden)
          \cup (IF arg_dbus_system = "BLOCK" THEN {DBUS_SYSTEM_SOCKET} ELSE {})
    /\ warnings' = Append(warnings, "dbus_disabled")
    /\ EnterReturn("apply")
    /\ UNCHANGED <<inputs, scan, handle, pipes, proxyv, fs, mounts,
                   dbus_dir_exists, substs, env, locals>>

\* EUID_ROOT(); !checkcfg(CFG_DBUS): hide the staging directory, warn, return
ApplyDisabled ==
    /\ CallGuard
    /\ ~(arg_dbus_user = "ALLOW" /\ arg_dbus_system = "ALLOW")
    /\ ~cfg_dbus
    /\ euid' = "root"
    /\ hidden' = disable_socket_dir(hidden)
    /\ warnings' = Append(warnings, "dbus_disabled")
    /\ EnterReturn("apply")
    /\ UNCHANGED <<inputs, scan, handle, pipes, proxyv, fs, mounts,
                   dbus_dir_exists, substs, env, locals>>

\* variant: the staging directory is hidden before the overlays
ApplyCompute_HidesDir ==
    /\ CallGuard
    /\ ~(arg_dbus_user = "ALLOW" /\ arg_dbus_system = "ALLOW")
    /\ cfg_dbus
    /\ euid' = "root"
    /\ hidden' = disable_socket_dir(hidden)
    /\ \/ /\ LET new == asprintf(DBUS_USER_SOCKET_PATH_FORMAT, <<uid>>)
             IN  frame' =
                   [new_path |-> new,
                    orig_path |->
                      IF /\ env # NULL
                         /\ StrNEq(DBUS_SOCKET_PATH_PREFIX, env,
                                   Len(DBUS_SOCKET_PATH_PREFIX))
                      THEN env ELSE new]
          /\ Enter("apply", "apply_user")
       \/ /\ EnterExit("apply", 1)
          /\ UNCHANGED frame
    /\ UNCHANGED <<inputs, scan, handle, pipes, proxyv, fs, mounts,
                   dbus_dir_exists, warnings, substs, env, ov>>

\* EUID_ROOT(); the canonical and the original user bus address
ApplyCompute ==
    /\ CallGuard
    /\ ~(arg_dbus_user = "ALLOW" /\ arg_dbus_system = "ALLOW")
    /\ cfg_dbus
    /\ euid' = "root"
    /\ \/ /\ LET new == asprintf(DBUS_USER_SOCKET_PATH_FORMAT, <<uid>>)
             IN  frame' =
                   [new_path |-> new,
                    orig_path |->
                      IF /\ env # NULL
                         /\ StrNEq(DBUS_SOCKET_PATH_PREFIX, env,
                                   Len(DBUS_SOCKET_PATH_PREFIX))
                      THEN env ELSE new]
          /\ Enter("apply", "apply_user")
       \/ /\ EnterExit("apply", 1)
          /\ UNCHANGED frame
    /\ UNCHANGED <<inputs, scan, handle, pipes, proxyv, fs, mounts, hidden,
                   dbus_dir_exists, warnings, substs, env, ov>>

\* the string a char pointer in allocation state st yields when read: the
\* stored one, or anything once the memory was released
ReadPath(p, st) ==
    IF st = "freed" THEN {p, <<"?">>} ELSE {p}

\* user bus: Filter starts the overlay, Block hides the canonical socket
ApplyUser ==
    /\ pc = "apply_user"
    /\ \/ /\ arg_dbus_user = "ALLOW"
          /\ Goto("apply_system")
          /\ UNCHANGED <<ov, hidden>>
       \/ /\ arg_dbus_user = "FILTER"
          /\ IF dbus_user_proxy_socket # NULL
             THEN /\ \E p \in ReadPath(dbus_user_proxy_socket, heap.user) :
                        ov' = [target |-> SkipPrefix(frame.new_path),
                               path |-> p, fd |-> "closed",
                               checked |-> FALSE, ret |-> "apply_user_free"]
                  /\ Goto("ov_open")
             ELSE /\ Exit(134)
                  /\ UNCHANGED ov
          /\ UNCHANGED hidden
       \/ /\ arg_dbus_user = "BLOCK"
          /\ hidden' = hidden \cup {SkipPrefix(frame.new_path)}
          /\ Goto("apply_user_env")
          /\ UNCHANGED ov
    /\ UNCHANGED <<inputs, scan, handle, pipes, proxyv, fs, mounts, dbus_dir_exists,
                   euid, warnings, substs, env, frame>>

\* free(dbus_user_proxy_socket): the pointer keeps its value
ApplyUserFree ==
    /\ pc = "apply_user_free"
    /\ \/ /\ heap' = [heap EXCEPT !.user = "freed"]
          /\ Goto("apply_user_env")
       \/ /\ FreeAborts(heap.user)
          /\ Exit(134)
          /\ UNCHANGED heap
    /\ UNCHANGED <<inputs, scan, dbus_proxy_pid, dbus_proxy_status_fd,
                   dbus_user_proxy_socket, dbus_system_proxy_socket,
                   pipes, proxyv, world, locals>>

\* variant: the variable is set to the original address
ApplyUserEnv_OriginalAddress ==
    /\ pc = "apply_user_env"
    /\ \/ /\ env' = frame.orig_path
          /\ hidden' = hidden
                \cup (IF SkipPrefix(frame.orig_path) # SkipPrefix(frame.new_path)
                         THEN {SkipPrefix(frame.orig_path)} ELSE {})
                \cup {asprintf(DotDbusFormat, <<HomeDir>>)}
          /\ Goto("apply_system")
       \/ /\ hidden' = hidden
                \cup (IF SkipPrefix(frame.orig_path) # SkipPrefix(frame.new_path)
                         THEN {SkipPrefix(frame.orig_path)} ELSE {})
          /\ Exit(1)
          /\ UNCHANGED env
    /\ UNCHANGED <<inputs, scan, handle, pipes, proxyv, fs, mounts, dbus_dir_exists,
                   euid, warnings, substs, locals>>

\* hide a custom original address, setenv the canonical one, hide ~/.dbus
ApplyUserEnv ==
    /\ pc = "apply_user_env"
    /\ \/ /\ env' = frame.new_path
          /\ hidden' = hidden
                \cup (IF SkipPrefix(frame.orig_path) # SkipPrefix(frame.new_path)
                         THEN {SkipPrefix(frame.orig_path)} ELSE {})
                \cup {asprintf(DotDbusFormat, <<HomeDir>>)}
          /\ Goto("apply_system")
       \/ /\ hidden' = hidden
                \cup (IF SkipPrefix(frame.orig_path) # SkipPrefix(frame.new_path)
                         THEN {SkipPrefix(frame.orig_path)} ELSE {})
          /\ Exit(1)
          /\ UNCHANGED env
    /\ UNCHANGED <<inputs, scan, handle, pipes, proxyv, fs, mounts, dbus_dir_exists,
                   euid, warnings, substs, locals>>

\* free(dbus_new_user_socket_path); system bus: Filter starts the overlay,
\* Block hides the system socket
ApplySystem ==
    /\ pc = "apply_system"
    /\ \/ /\ arg_dbus_system = "FILTER"
          /\ IF dbus_system_proxy_socket # NULL
             THEN /\ \E p \in ReadPath(dbus_system_proxy_socket, heap.system) :
                        ov' = [target |-> DBUS_SYSTEM_SOCKET,
                               path |-> p, fd |-> "closed",
                               checked |-> FALSE, ret |-> "apply_system_free"]
                  /\ Goto("ov_open")
             ELSE /\ Exit(134)
                  /\ UNCHANGED ov
          /\ UNCHANGED hidden
       \/ /\ arg_dbus_system = "BLOCK"
          /\ hidden' = hidden \cup {DBUS_SYSTEM_SOCKET}
          /\ Goto("apply_hide_dir")
          /\ UNCHANGED ov
       \/ /\ arg_dbus_system = "ALLOW"
          /\ Goto("apply_hide_dir")
          /\ UNCHANGED <<ov, hidden>>
    /\ frame' = NoFrame
    /\ UNCHANGED <<inputs, scan, handle, pipes, proxyv, fs, mounts, dbus_dir_exists,
                   euid, warnings, substs, env>>

\* free(dbus_system_proxy_socket)
ApplySystemFree ==
    /\ pc = "apply_system_free"
    /\ \/ /\ heap' = [heap EXCEPT !.system = "freed"]
          /\ Goto("apply_hide_dir")
       \/ /\ FreeAborts(heap.system)
          /\ Exit(134)
          /\ UNCHANGED heap
    /\ UNCHANGED <<inputs, scan, dbus_proxy_pid, dbus_proxy_status_fd,
                   dbus_user_proxy_socket, dbus_system_proxy_socket,
                   pipes, proxyv, world, locals>>

\* disable_socket_dir(), once the sockets have been bind-mounted
ApplyHideDir ==
    /\ pc = "apply_hide_dir"
    /\ hidden' = disable_socket_dir(hidden)
    /\ Goto("apply_residual")
    /\ UNCHANGED <<inputs, scan, handle, pipes, proxyv, fs, mounts, dbus_dir_exists,
                   euid, warnings, substs, env, locals>>

\* variant: the privilege is dropped before the final return
ApplyResidual_DropsRoot ==
    /\ pc = "apply_residual"
    /\ \E arg_nonetwork \in BOOLEAN, any_bridge_configured \in BOOLEAN,
          have_seccomp \in BOOLEAN, protocol \in {"", "unix,inet", "inet"} :
          IF \/ arg_nonetwork
             \/ any_bridge_configured
             \/ (have_seccomp /\ protocol = "inet")
          THEN UNCHANGED warnings
          ELSE warnings' = Append(warnings, "abstract_socket")
    /\ euid' = "user"
    /\ Return("apply")
    /\ UNCHANGED <<inputs, scan, handle, pipes, proxyv, fs, mounts, hidden,
                   dbus_dir_exists, substs, env, locals>>

\* the three returns that skip the abstract-socket warning, and the warning
ApplyResidual ==
    /\ pc = "apply_residual"
    /\ \E arg_nonetwork \in BOOLEAN, any_bridge_configured \in BOOLEAN,
          have_seccomp \in BOOLEAN, protocol \in {"", "unix,inet", "inet"} :
          IF \/ arg_nonetwork
             \/ any_bridge_configured
             \/ (have_seccomp /\ protocol = "inet")
          THEN UNCHANGED warnings
          ELSE warnings' = Append(warnings, "abstract_socket")
    /\ Return("apply")
    /\ UNCHANGED <<inputs, scan, handle, pipes, proxyv, fs, mounts, hidden,
                   dbus_dir_exists, euid, substs, env, locals>>

\* ------------------------------------------------------------------------
\* dbus_check_profile
\* ------------------------------------------------------------------------
\* variant: the scan goes on after the first line that matches
RECURSIVE dbus_check_bus_profile_NoBreak(_, _, _)
dbus_check_bus_profile_NoBreak(lines, prefix, policy) ==
    IF lines = <<>> THEN [exits |-> FALSE, out |-> <<>>]
    ELSE LET data == Head(lines)
             rest == dbus_check_bus_profile_NoBreak(Tail(lines), prefix, policy)
         IN  IF ~StrNEq(prefix, data, Len(prefix)) THEN rest
             ELSE CASE policy = "ALLOW" -> [exits |-> TRUE, out |-> <<>>]
                    [] policy = "FILTER" -> rest
                    [] policy = "BLOCK" ->
                         [exits |-> rest.exits,
                          out |-> <<[text |-> "bus_blocked", args |-> <<prefix>>],
                                    [text |-> "ignoring", args |-> <<data, prefix>>]>>
                                  \o rest.out]
                    [] OTHER -> [exits |-> TRUE, out |-> <<>>]

\* dbus_check_bus_profile(prefix, policy) run over the profile list lines:
\* whether it ends the process with exit(1), and the fwarning calls it
\* makes.  The scan stops at the first line that starts with prefix.
RECURSIVE dbus_check_bus_profile(_, _, _)
dbus_check_bus_profile(lines, prefix, policy) ==
    IF lines = <<>> THEN [exits |-> FALSE, out |-> <<>>]
    ELSE LET data == Head(lines)
         IN  IF ~StrNEq(prefix, data, Len(prefix))
             THEN dbus_check_bus_profile(Tail(lines), prefix, policy)
             ELSE CASE policy = "ALLOW" -> [exits |-> TRUE, out |-> <<>>]
                    [] policy = "FILTER" -> [exits |-> FALSE, out |-> <<>>]
                    [] policy = "BLOCK" ->
                         [exits |-> FALSE,
                          out |-> <<[text |-> "bus_blocked", args |-> <<prefix>>],
                                    [text |-> "ignoring", args |-> <<data, prefix>>]>>]
                    [] OTHER -> [exits |-> TRUE, out |-> <<>>]

\* dbus_check_bus_profile("dbus-user", arg_dbus_user)
CheckProfileUser ==
    /\ CallGuard
    /\ LET r == dbus_check_bus_profile(profile, UserBusPrefix, arg_dbus_user)
       IN  IF r.exits
           THEN EnterExit("check", 1) /\ UNCHANGED warnings
           ELSE Enter("check", "check_system") /\ warnings' = warnings \o r.out
    /\ UNCHANGED <<inputs, scan, handle, pipes, proxyv, fs, mounts, hidden,
                   dbus_dir_exists, euid, substs, env, locals>>

\* dbus_check_bus_profile("dbus-system", arg_dbus_system)
CheckProfileSystem ==
    /\ pc = "check_system"
    /\ LET r == dbus_check_bus_profile(profile, SystemBusPrefix, arg_dbus_system)
       IN  IF r.exits
           THEN Exit(1) /\ UNCHANGED warnings
           ELSE Return("check") /\ warnings' = warnings \o r.out
    /\ UNCHANGED <<inputs, scan, handle, pipes, proxyv, fs, mounts, hidden,
                   dbus_dir_exists, euid, substs, env, locals>>

\* write_profile(fd, "dbus-user.") on an empty pipe
WriteProfileUser ==
    /\ pc = "idle"
    /\ calls = 0
    /\ args_pipe' = write_profile(profile, UserRulePrefix)
    /\ pc' = "written"
    /\ calls' = 1
    /\ op' = "write_profile_user"
    /\ UNCHANGED <<inputs, scan, handle, exit_status, last_ret, args_w, status_w,
                   status_r, status_pipe, read_bytes, proxyv, world, locals>>

\* write_profile(fd, "dbus-system.") on an empty pipe
WriteProfileSystem ==
    /\ pc = "idle"
    /\ calls = 0
    /\ args_pipe' = write_profile(profile, SystemRulePrefix)
    /\ pc' = "written"
    /\ calls' = 1
    /\ op' = "write_profile_system"
    /\ UNCHANGED <<inputs, scan, handle, exit_status, last_ret, args_w, status_w,
                   status_r, status_pipe, read_bytes, proxyv, world, locals>>

\* ------------------------------------------------------------------------
\* dbus_check_name
\* ------------------------------------------------------------------------
\* variant: a name of DBUS_MAX_NAME_LENGTH bytes is already too long
NameBegin_RejectsMaxLength ==
    /\ scan.ret = "called"
    /\ scan' = IF Len(scan.name) = 0 \/ Len(scan.name) >= DBUS_MAX_NAME_LENGTH
                  THEN [scan EXCEPT !.ret = "false"]
                  ELSE [scan EXCEPT !.p = 1, !.segments = 1,
                                    !.in_segment = FALSE, !.ret = "scanning"]
    /\ UNCHANGED <<inputs, handle, ctl, pipes, proxyv, world, locals>>

\* the length test, then p = name, segments = 1, in_segment = 0
NameBegin ==
    /\ scan.ret = "called"
    /\ scan' = IF Len(scan.name) = 0 \/ Len(scan.name) > DBUS_MAX_NAME_LENGTH
                  THEN [scan EXCEPT !.ret = "false"]
                  ELSE [scan EXCEPT !.p = 1, !.segments = 1,
                                    !.in_segment = FALSE, !.ret = "scanning"]
    /\ UNCHANGED <<inputs, handle, ctl, pipes, proxyv, world, locals>>

\* variant: a '*' is accepted only after a '.'
NameStep_StarNeedsDot ==
    /\ scan.ret = "scanning"
    /\ scan.p <= Len(scan.name)
    /\ LET c == scan.name[scan.p]
           alpha == \/ Ord(c) >= Ord("a") /\ Ord(c) <= Ord("z")
                    \/ Ord(c) >= Ord("A") /\ Ord(c) <= Ord("Z")
           digit == Ord(c) >= Ord("0") /\ Ord(c) <= Ord("9")
       IN  scan' =
             IF scan.in_segment
             THEN IF c = "."
                  THEN [scan EXCEPT !.segments = @ + 1, !.in_segment = FALSE,
                                    !.p = @ + 1]
                  ELSE IF ~alpha /\ ~digit /\ c # "_" /\ c # "-"
                  THEN [scan EXCEPT !.ret = "false"]
                  ELSE [scan EXCEPT !.p = @ + 1]
             ELSE IF c = "*"
                  THEN [scan EXCEPT !.ret =
                          IF scan.p = Len(scan.name) /\ scan.p > 1
                              THEN "true" ELSE "false"]
                  ELSE IF ~alpha /\ c # "_" /\ c # "-"
                  THEN [scan EXCEPT !.ret = "false"]
                  ELSE [scan EXCEPT !.in_segment = TRUE, !.p = @ + 1]
    /\ UNCHANGED <<inputs, handle, ctl, pipes, proxyv, world, locals>>

\* one turn of while (*p) { ... ++p; }
NameStep ==
    /\ scan.ret = "scanning"
    /\ scan.p <= Len(scan.name)
    /\ LET c == scan.name[scan.p]
           alpha == \/ Ord(c) >= Ord("a") /\ Ord(c) <= Ord("z")
                    \/ Ord(c) >= Ord("A") /\ Ord(c) <= Ord("Z")
           digit == Ord(c) >= Ord("0") /\ Ord(c) <= Ord("9")
       IN  scan' =
             IF scan.in_segment
             THEN IF c = "."
                  THEN [scan EXCEPT !.segments = @ + 1, !.in_segment = FALSE,
                                    !.p = @ + 1]
                  ELSE IF ~alpha /\ ~digit /\ c # "_" /\ c # "-"
                  THEN [scan EXCEPT !.ret = "false"]
                  ELSE [scan EXCEPT !.p = @ + 1]
             ELSE IF c = "*"
                  THEN [scan EXCEPT !.ret =
                          IF scan.p = Len(scan.name) THEN "true" ELSE "false"]
                  ELSE IF ~alpha /\ c # "_" /\ c # "-"
                  THEN [scan EXCEPT !.ret = "false"]
                  ELSE [scan EXCEPT !.in_segment = TRUE, !.p = @ + 1]
    /\ UNCHANGED <<inputs, handle, ctl, pipes, proxyv, world, locals>>

\* return in_segment && segments >= 2
NameEnd ==
    /\ scan.ret = "scanning"
    /\ scan.p > Len(scan.name)
    /\ scan' = [scan EXCEPT !.ret =
                  IF scan.in_segment /\ scan.segments >= 2
                      THEN "true" ELSE "false"]
    /\ UNCHANGED <<inputs, handle, ctl, pipes, proxyv, world, locals>>

StartNext ==
    \/ StartCreateDir \/ StartStatusPipe \/ StartArgsPipe \/ StartFork
    \/ StartCloseChildEnds \/ StartWriteUser \/ StartWriteSystem
    \/ StartCloseArgs \/ StartRead \/ StartWait

StopNext ==
    \/ StopNoop \/ StopClose \/ StopWait \/ StopClear

OverlayNext ==
    \/ OverlayOpen \/ OverlayFstat \/ OverlayMount \/ OverlayClose

ApplyNext ==
    \/ ApplyBothAllow \/ ApplyDisabled \/ ApplyCompute \/ ApplyUser
    \/ ApplyUserFree \/ ApplyUserEnv \/ ApplySystem \/ ApplySystemFree
    \/ ApplyHideDir \/ ApplyResidual

EnvironmentNext ==
    \/ ProxyReady \/ ProxyClose \/ ProxyExit \/ ProxyShutdown \/ Substitute

Next ==
    \/ StartNext
    \/ StopNext
    \/ OverlayNext
    \/ ApplyNext
    \/ EnvironmentNext

Spec == Init /\ [][Next]_vars

\* the profile functions applied alone to profiles of up to MaxRules lines
InitProfile ==
    /\ arg_dbus_user \in DbusPolicy
    /\ arg_dbus_system \in DbusPolicy
    /\ profile \in RuleProfiles
    /\ uid \in Uids
    /\ pid_self \in Pids
    /\ cfg_dbus = TRUE
    /\ env = NULL
    /\ dbus_dir_exists = TRUE
    /\ Constructed
    /\ scan = NoScan

NextProfile ==
    \/ CheckProfileUser
    \/ CheckProfileSystem
    \/ WriteProfileUser
    \/ WriteProfileSystem

SpecProfile == InitProfile /\ [][NextProfile]_vars

\* dbus_check_name called on each of the names
InitName ==
    /\ arg_dbus_user = "ALLOW"
    /\ arg_dbus_system = "ALLOW"
    /\ profile = <<>>
    /\ uid \in Uids
    /\ pid_self \in Pids
    /\ cfg_dbus = TRUE
    /\ env = NULL
    /\ dbus_dir_exists = TRUE
    /\ Constructed
    /\ \E name \in Names :
          scan = [name |-> name, p |-> 0, segments |-> 0,
                  in_segment |-> FALSE, ret |-> "called"]

NextName ==
    \/ NameBegin
    \/ NameStep
    \/ NameEnd

SpecName == InitName /\ [][NextName]_vars

\* dbus_proxy_start alone with its proxy.  The parent is a sequential
\* process: once inside start it takes its next step whenever that step can
\* be taken (a failing system call is possible but never owed).  A proxy
\* that closed its descriptors is reaped by the kernel.  Nothing obliges
\* the proxy to answer.  The handshake does not look at the address or at
\* the directives it streams, so one address and two profiles are taken.
InitStart ==
    /\ arg_dbus_user \in DbusPolicy
    /\ arg_dbus_system \in DbusPolicy
    /\ profile \in {<<>>, <<LineUserTalk>>}
    /\ uid \in Uids
    /\ pid_self \in Pids
    /\ cfg_dbus = TRUE
    /\ env = NULL
    /\ dbus_dir_exists \in BOOLEAN
    /\ Constructed
    /\ scan = NoScan

NextStart ==
    \/ StartNext
    \/ ProxyReady
    \/ ProxyClose
    \/ ProxyExit

StartContinue ==
    /\ pc # "idle"
    /\ StartNext
    /\ pc' = "exited" => pc = "start_wait"

SpecStart ==
    /\ InitStart
    /\ [][NextStart]_vars
    /\ WF_vars(StartContinue)
    /\ WF_vars(ProxyExit)

\* ========================================================================
\* Properties
\* ========================================================================
HasPrefix(s, prefix) ==
    /\ Len(s) >= Len(prefix)
    /\ \A i \in 1..Len(prefix) : s[i] = prefix[i]

\* "unix:path=/run/user/<uid>/bus" and "/run/user/<uid>/bus"
CanonicalUserSocket ==
    <<"/", "r", "u", "n", "/", "u", "s", "e", "r", "/">> \o IntToStr(uid)
        \o <<"/", "b", "u", "s">>
CanonicalUserAddress == DBUS_SOCKET_PATH_PREFIX \o CanonicalUserSocket

\* reference reading of one profile line as a directive of a bus: the
\* position of the first space after "<prefix>"
FirstSpace(line, prefix) ==
    CHOOSE k \in (Len(prefix) + 1)..(Len(line) + 1) :
        /\ k <= Len(line) => line[k] = " "
        /\ \A j \in (Len(prefix) + 1)..(k - 1) : line[j] # " "

IsDirective(line, prefix) ==
    /\ HasPrefix(line, prefix)
    /\ FirstSpace(line, prefix) <= Len(line)

RefArgument(line, prefix) ==
    <<"-", "-">> \o SubSeq(line, Len(prefix) + 1, FirstSpace(line, prefix) - 1)
        \o <<"=">> \o SubSeq(line, FirstSpace(line, prefix) + 1, Len(line))

RefArguments(prefix) ==
    LET sel == SelectSeq(profile, LAMBDA l : IsDirective(l, prefix))
    IN  [i \in 1..Len(sel) |-> RefArgument(sel[i], prefix)]

\* the strings the claim expects on the arguments pipe
RefUserStrings ==
    IF arg_dbus_user = "FILTER"
    THEN <<IF env = NULL THEN CanonicalUserAddress ELSE env,
           UserProxyPath, FilterMarker>> \o RefArguments(UserRulePrefix)
    ELSE <<>>

RefSystemStrings ==
    IF arg_dbus_system = "FILTER"
    THEN <<DBUS_SYSTEM_SOCKET_PATH, SystemProxyPath, FilterMarker>>
             \o RefArguments(SystemRulePrefix)
    ELSE <<>>

ArgStrings == Strings(args_pipe)

\* C1: in dbus_proxy_start the bytes written to the arguments pipe are the
\* user section (iff user policy is Filter) then the system section (iff
\* system policy is Filter), each being the real bus address, the proxy
\* socket path, "--filter" and one "--<name>=<value>" per well-formed
\* directive in profile order, every string NUL-terminated, and the write
\* end is closed after the last string.
C1_ArgumentsStream ==
    pc = "start_read" =>
        /\ args_w = "closed"
        /\ ArgStrings = RefUserStrings \o RefSystemStrings
        /\ (args_pipe # <<>> => args_pipe[Len(args_pipe)] = NUL)

StartPcs ==
    {"start_status_pipe", "start_args_pipe", "start_fork",
     "start_close_child_ends", "start_user", "start_system",
     "start_close_args", "start_read", "start_wait"}

\* C2: dbus_proxy_start returns normally iff the single read on the status
\* pipe delivered exactly one byte; on a read of zero bytes the parent waits
\* for the proxy child to exit and then terminates with a non-zero status;
\* a read error terminates the process; nothing runs after a failed start.
C2_ReadinessGate ==
    /\ [][(pc \in StartPcs /\ pc' = "idle")
            <=> (read_bytes # "1" /\ read_bytes' = "1")]_vars
    /\ [](read_bytes = "0" =>
            /\ pc \in {"start_wait", "exited"}
            /\ pc = "exited" => (exit_status # 0 /\ proxy = "exited"))
    /\ [](read_bytes = "-1" => (pc = "exited" /\ exit_status # 0))

C2_Witness ==
    /\ read_bytes = "0"
    /\ pc = "exited"
    /\ exit_status = 255
    /\ proxy_exit = 1

\* C3: after a successful dbus_proxy_start the proxy pid is non-zero and a
\* proxy socket path is set iff that bus's policy is Filter; after
\* dbus_proxy_stop, whatever the state before the call, pid is 0, the status
\* descriptor is -1 and both socket paths are NULL.
C3_HandlePostconditions ==
    /\ (pc = "idle" /\ last_ret = "start") =>
          /\ dbus_proxy_pid > 0
          /\ dbus_user_proxy_socket # NULL <=> arg_dbus_user = "FILTER"
          /\ dbus_system_proxy_socket # NULL <=> arg_dbus_system = "FILTER"
    /\ (pc = "idle" /\ last_ret = "stop") =>
          /\ dbus_proxy_pid = 0
          /\ dbus_proxy_status_fd = -1
          /\ dbus_user_proxy_socket = NULL
          /\ dbus_system_proxy_socket = NULL

\* stop has returned after start and a mediating apply
C3_Witness ==
    /\ pc = "idle"
    /\ last_ret = "stop"
    /\ mounts # {}
    /\ arg_dbus_user = "FILTER"
    /\ arg_dbus_system = "BLOCK"
    /\ dbus_user_proxy_socket = NULL

\* C4: whatever another actor does to the object at proxy_path, the object
\* bind-mounted over target_path is the very object that was opened and
\* verified to be a socket.
C4_MountsVerifiedObject ==
    \A m \in mounts : m.checked /\ m.obj = m.opened

\* C5: on every return path of dbus_apply_policy the elevated privilege it
\* acquired is no longer held.
C5_PrivilegeReleased ==
    (pc = "idle" /\ last_ret = "apply") => euid = "user"

\* C5 (amended): dbus_apply_policy raises the effective uid to root at its
\* first statement and never lowers it: the privilege is held throughout the
\* call and is still held on every return path.
C5_PrivilegeKept ==
    (op = "apply" \/ last_ret = "apply") => euid = "root"

C5_Witness ==
    /\ pc = "idle"
    /\ last_ret = "apply"
    /\ mounts # {}
    /\ euid = "root"

\* the positions of the "--filter" markers on the arguments pipe
MarkerPositions == {k \in 1..Len(ArgStrings) : ArgStrings[k] = FilterMarker}

\* C6: in every bus section both the first string (real bus address) and
\* the second string (proxy socket path) have the form "unix:path=<path>".
C6_UnixPathForm ==
    pc = "start_read" =>
        \A k \in MarkerPositions :
            /\ k >= 3
            /\ HasPrefix(ArgStrings[k - 2], DBUS_SOCKET_PATH_PREFIX)
            /\ HasPrefix(ArgStrings[k - 1], DBUS_SOCKET_PATH_PREFIX)

RefProxyPath(suffix) ==
    RUN_FIREJAIL_DBUS_DIR \o <<"/">> \o IntToStr(uid) \o <<"/">>
        \o IntToStr(pid_self) \o suffix

\* C6 (amended): the second string of a section is the bare file system
\* path <staging dir>/<uid>/<pid>-user or -system, without "unix:path=";
\* the first string of the system section is "unix:path=" followed by the
\* system socket path; the first string of the user section is the canonical
\* "unix:path=/run/user/<uid>/bus" when the variable is unset, and otherwise
\* the variable's value expanded as a format string: the value itself when
\* it holds no '%', so of the unix:path= form only if the value is.
C6_AddressForms ==
    pc = "start_read" =>
        /\ Cardinality(MarkerPositions) =
              Cardinality({b \in {arg_dbus_user}: b = "FILTER"})
              + Cardinality({b \in {arg_dbus_system}: b = "FILTER"})
        /\ \A k \in MarkerPositions :
            /\ k >= 3
            /\ LET addr == ArgStrings[k - 2]
                   path == ArgStrings[k - 1]
               IN  /\ ~HasPrefix(path, DBUS_SOCKET_PATH_PREFIX)
                   /\ path \in {RefProxyPath(<<"-", "u", "s", "e", "r">>),
                                RefProxyPath(<<"-", "s", "y", "s", "t", "e", "m">>)}
                   /\ path = RefProxyPath(<<"-", "s", "y", "s", "t", "e", "m">>)
                        => addr = DBUS_SOCKET_PATH_PREFIX \o DBUS_SYSTEM_SOCKET
                   /\ path = RefProxyPath(<<"-", "u", "s", "e", "r">>) =>
                        /\ env = NULL => addr = CanonicalUserAddress
                        /\ (env # NULL /\ "%" \notin Range(env)) => addr = env
                        /\ (env # NULL /\ HasPrefix(env, DBUS_SOCKET_PATH_PREFIX))
                              => HasPrefix(addr, DBUS_SOCKET_PATH_PREFIX)

\* both sections written, the user address not of the unix:path= form
C6_Witness ==
    /\ pc = "start_read"
    /\ arg_dbus_user = "FILTER"
    /\ arg_dbus_system = "FILTER"
    /\ env = EnvAbstract
    /\ Cardinality(MarkerPositions) = 2

MountedOver(target) == {m \in mounts : m.target = target}

\* C7: with mediation enabled and user policy Filter or Block, after apply
\* returns the session-bus-address variable is the canonical
\* "unix:path=/run/user/<uid>/bus" whatever it was, a failed write ends the
\* process with a non-zero status; with user policy Allow the variable is
\* unchanged and the canonical user socket is neither overlaid nor hidden.
C7_EnvironmentContract ==
    /\ []((pc = "idle" /\ last_ret = "apply" /\ cfg_dbus
             /\ arg_dbus_user # "ALLOW") => env = CanonicalUserAddress)
    /\ [][(pc = "apply_user_env" /\ pc' # pc) =>
             \/ (pc' # "exited" /\ env' = CanonicalUserAddress)
             \/ (pc' = "exited" /\ exit_status' # 0)]_vars
    /\ [][arg_dbus_user = "ALLOW" => env' = env]_vars
    /\ [](arg_dbus_user = "ALLOW" =>
             /\ CanonicalUserSocket \notin hidden
             /\ MountedOver(CanonicalUserSocket) = {})

\* apply returned under Block with a custom address in the variable before
C7_Witness ==
    /\ pc = "idle"
    /\ last_ret = "apply"
    /\ arg_dbus_user = "BLOCK"
    /\ SkipPrefix(EnvCustom) \in hidden
    /\ env = CanonicalUserAddress

\* C8: whenever apply returns normally the staging directory has been hidden
\* (when it exists); on the mediating path the hide step comes strictly
\* after every overlay the policies require, never before.
C8_StagingHiddenLast ==
    /\ []((pc = "idle" /\ last_ret = "apply" /\ dbus_dir_exists)
             => RUN_FIREJAIL_DBUS_DIR \in hidden)
    /\ [][(RUN_FIREJAIL_DBUS_DIR \notin hidden
              /\ RUN_FIREJAIL_DBUS_DIR \in hidden') =>
             \/ /\ pc = "idle" /\ pc' = "idle"
                /\ \/ arg_dbus_user = "ALLOW" /\ arg_dbus_system = "ALLOW"
                   \/ ~cfg_dbus
             \/ /\ pc = "apply_hide_dir"
                /\ ov = NoOverlay
                /\ arg_dbus_user = "FILTER"
                      => MountedOver(CanonicalUserSocket) # {}
                /\ arg_dbus_system = "FILTER"
                      => MountedOver(DBUS_SYSTEM_SOCKET) # {}]_vars

C8_Witness ==
    /\ pc = "idle"
    /\ last_ret = "apply"
    /\ arg_dbus_user = "FILTER"
    /\ arg_dbus_system = "FILTER"
    /\ MountedOver(CanonicalUserSocket) # {}
    /\ MountedOver(DBUS_SYSTEM_SOCKET) # {}
    /\ RUN_FIREJAIL_DBUS_DIR \in hidden

C10_NonSocketRefused ==
    /\ [][(pc = "ov_open" /\ pc' # pc /\ Lookup(ov.path) = "absent") =>
             (pc' = "exited" /\ exit_status' # 0 /\ mounts' = mounts)]_vars
    /\ [][(pc = "ov_fstat" /\ pc' # pc /\ ObjType[ov.fd] # "S_IFSOCK") =>
             (pc' = "exited" /\ exit_status' # 0 /\ mounts' = mounts)]_vars
    /\ [](\A m \in mounts : m.checked /\ ObjType[m.opened] = "S_IFSOCK")
    /\ [](pc \in {"ov_mount", "ov_close"} =>
             (ov.checked /\ ObjType[ov.fd] = "S_IFSOCK"))

\* the overlay of the user bus stopped at a regular file, nothing mounted
C10_Witness ==
    /\ pc = "exited"
    /\ exit_status # 0
    /\ ov.fd = "other_file"
    /\ ~ov.checked
    /\ mounts = {}

\* C11 (as stated): in every reachable state the proxy pid is 0 exactly
\* when both proxy socket paths are unset and the status descriptor is
\* invalid.
C11_HandleInvariant ==
    (dbus_proxy_pid = 0) <=>
        /\ dbus_user_proxy_socket = NULL
        /\ dbus_system_proxy_socket = NULL
        /\ dbus_proxy_status_fd = -1

\* C11 (amended): whenever no operation is in progress, that is before the
\* first call and after every call of start, apply or stop has returned,
\* the proxy pid is 0 exactly when both proxy socket paths are unset and
\* the status descriptor is -1.
C11_HandleInvariantBetweenCalls ==
    pc = "idle" =>
        ((dbus_proxy_pid = 0) <=>
            /\ dbus_user_proxy_socket = NULL
            /\ dbus_system_proxy_socket = NULL
            /\ dbus_proxy_status_fd = -1)

\* a proxy was started and stopped again; the handle is back to empty
C11_Witness ==
    /\ pc = "idle"
    /\ op = "stop"
    /\ last_ret = "stop"
    /\ proxy = "exited"
    /\ dbus_proxy_pid = 0
    /\ dbus_proxy_status_fd = -1
    /\ dbus_user_proxy_socket = NULL
    /\ dbus_system_proxy_socket = NULL

\* C12: dbus_proxy_stop called while the proxy pid is 0 returns at once:
\* it closes no descriptor, waits for no process, writes no warning and
\* leaves every field of the handle as it was.
C12_StopIdempotent ==
    [][(pc = "idle" /\ op' = "stop" /\ calls' = calls + 1
        /\ dbus_proxy_pid = 0) =>
          /\ pc' = "idle"
          /\ last_ret' = "stop"
          /\ exit_status' = exit_status
          /\ UNCHANGED <<handle, pipes, proxyv, world>>]_vars

\* two calls were made, neither forked a proxy nor took root: stop was
\* called a second time directly after a first stop
C12_Witness ==
    /\ pc = "idle"
    /\ calls = 2
    /\ last_ret = "stop"
    /\ proxy = "none"
    /\ euid = "user"
    /\ dbus_proxy_pid = 0
    /\ warnings = <<>>

\* reference reading of dbus_check_bus_profile: the lines of the profile
\* that start with prefix, and the first of them
Matching(prefix) == {i \in 1..Len(profile) : HasPrefix(profile[i], prefix)}
FirstMatch(prefix) ==
    profile[CHOOSE i \in Matching(prefix) : \A j \in Matching(prefix) : i <= j]

\* what one run of dbus_check_bus_profile(prefix, policy) may do
CheckOutcome(prefix, policy) ==
    IF Matching(prefix) = {}
    THEN pc' # "exited" /\ warnings' = warnings
    ELSE /\ policy = "ALLOW" =>
              (pc' = "exited" /\ exit_status' = 1 /\ warnings' = warnings)
         /\ policy = "FILTER" => (pc' # "exited" /\ warnings' = warnings)
         /\ policy = "BLOCK" =>
              /\ pc' # "exited"
              /\ warnings' = warnings \o
                    <<[text |-> "bus_blocked", args |-> <<prefix>>],
                      [text |-> "ignoring",
                       args |-> <<FirstMatch(prefix), prefix>>]>>

\* C13: dbus_check_bus_profile(prefix, policy) does nothing when no profile
\* line starts with prefix; when at least one does, policy Allow ends the
\* process with a fatal error, Filter does nothing, and Block warns once,
\* naming only the first matching line, and returns: the warnings do not
\* grow with the number of matching lines.
C13_CheckBusProfile ==
    /\ [][(pc = "idle" /\ op' = "check" /\ calls' = calls + 1) =>
             CheckOutcome(UserBusPrefix, arg_dbus_user)]_vars
    /\ [][(pc = "check_system" /\ pc' # pc) =>
             CheckOutcome(SystemBusPrefix, arg_dbus_system)]_vars

\* a blocked user bus with three matching lines: one warning, naming the
\* first of them
C13_Witness ==
    /\ pc = "idle"
    /\ last_ret = "check"
    /\ calls = 1
    /\ arg_dbus_user = "BLOCK"
    /\ Cardinality(Matching(UserBusPrefix)) = 3
    /\ profile[1] # profile[2]
    /\ Len(warnings) = 2
    /\ warnings[2].args[1] = profile[1]

\* C14: write_profile(fd, prefix) writes, for every profile, exactly one
\* "--<name>=<value>" string per line that starts with prefix and has a
\* space after it, in profile order, where name is the text between the
\* prefix and the first space and value is everything after that space;
\* ["dbus-user.talk org.foo", "dbus-user.own", "other.rule x"] gives
\* exactly ["--talk=org.foo"].
C14_WriteProfile ==
    pc = "written" =>
        LET prefix == IF op = "write_profile_user"
                          THEN UserRulePrefix ELSE SystemRulePrefix
        IN  /\ Strings(args_pipe) = RefArguments(prefix)
            /\ args_pipe # <<>> => args_pipe[Len(args_pipe)] = NUL
            /\ profile = <<LineUserTalk, LineUserOwn, LineOther>>
                 /\ op = "write_profile_user" =>
                    args_pipe = <<"-","-","t","a","l","k","=","o","r","g",".","f","o","o", NUL>>

\* the profile of the example was written for the user bus
C14_Witness ==
    /\ pc = "written"
    /\ op = "write_profile_user"
    /\ profile = <<LineUserTalk, LineUserOwn, LineOther>>
    /\ Strings(args_pipe) = <<<<"-","-","t","a","l","k","=","o","r","g",".","f","o","o">>>>

\* the grammar of bus names, read independently of the scan
RefLetters ==
    {"a", "b", "c", "d", "e", "f", "g", "h", "i", "j", "k", "l", "m", "n",
     "o", "p", "q", "r", "s", "t", "u", "v", "w", "x", "y", "z", "A", "B",
     "C", "D", "E", "F", "G", "H", "I", "J", "K", "L", "M", "N", "O", "P",
     "Q", "R", "S", "T", "U", "V", "W", "X", "Y", "Z"}
RefDigits == {"0", "1", "2", "3", "4", "5", "6", "7", "8", "9"}
RefSegmentStart == RefLetters \cup {"_", "-"}
RefSegmentChars == RefLetters \cup RefDigits \cup {"_", "-"}
Dots(s) == {i \in 1..Len(s) : s[i] = "."}
SegmentStarts(s) == {1} \cup {d + 1 : d \in Dots(s)}
SegmentEnd(s, b) ==
    LET later == {d \in Dots(s) : d >= b}
    IN  IF later = {} THEN Len(s)
        ELSE (CHOOSE d \in later : \A q \in later : d <= q) - 1
ValidSegment(s, b) ==
    /\ SegmentEnd(s, b) >= b
    /\ s[b] \in RefSegmentStart
    /\ \A i \in (b + 1)..SegmentEnd(s, b) : s[i] \in RefSegmentChars
\* one or more non-empty, well-formed segments separated by dots
Segmented(s) ==
    /\ Len(s) >= 1
    /\ \A b \in SegmentStarts(s) : ValidSegment(s, b)
RefCheckName(s) ==
    /\ Len(s) >= 1
    /\ Len(s) <= 255
    /\ \/ Segmented(s) /\ Cardinality(SegmentStarts(s)) >= 2
       \/ /\ s[Len(s)] = "*"
          /\ \/ Len(s) = 1
             \/ /\ Len(s) >= 3
                /\ s[Len(s) - 1] = "."
                /\ Segmented(SubSeq(s, 1, Len(s) - 2))

\* C15: dbus_check_name returns true exactly for the names of 1 to 255
\* bytes that either consist of two or more non-empty dot-separated
\* segments, each starting with a letter, '_' or '-' and continuing with
\* letters, digits, '_' or '-', or end in a '*' that stands where a segment
\* would start (at the very beginning or right after a '.', all segments
\* before it being well formed); it rejects a single segment, an empty
\* segment, a trailing dot, a '*' inside a segment or before the end, a
\* segment starting with a digit, the empty name and names over 255 bytes.
C15_NameGrammar ==
    scan.ret \in {"true", "false"} =>
        /\ (scan.ret = "true") <=> RefCheckName(scan.name)
        /\ scan.name \in {<<>>, NameOrg, NameEmptySegment, NameTrailingDot,
                          NameStarInSegment, NameStarInMiddle, NameDigitStart,
                          LongName(256)} => scan.ret = "false"

\* a name of exactly 255 bytes was scanned to its end and accepted
C15_Witness ==
    /\ scan.ret = "true"
    /\ Len(scan.name) = 255
    /\ scan.p = 256

\* C16 (as stated): dbus_check_name rejects the bare "*" and accepts
\* "org.*".
C16_BareStarRejected ==
    /\ (scan.name = NameStar /\ scan.ret \in {"true", "false"}) =>
          scan.ret = "false"
    /\ (scan.name = NameOrgStar /\ scan.ret \in {"true", "false"}) =>
          scan.ret = "true"

\* C16 (amended): dbus_check_name accepts the bare "*", whose '*' stands
\* where the first segment would start and is the final character, and
\* accepts "org.*".
C16_BareStarAccepted ==
    /\ (scan.name = NameStar /\ scan.ret \in {"true", "false"}) =>
          (scan.ret = "true" /\ scan.p = 1)
    /\ (scan.name = NameOrgStar /\ scan.ret \in {"true", "false"}) =>
          (scan.ret = "true" /\ scan.p = 5)

\* the bare "*" was accepted at its first character
C16_Witness ==
    /\ scan.name = NameStar
    /\ scan.ret = "true"
    /\ scan.p = 1
    /\ ~scan.in_segment

\* C17: in dbus_proxy_start the parent has closed its copies of the status
\* write end and of the arguments pipe, the whole configuration being
\* written, before its single blocking read; parent and proxy never wait
\* for each other; so start always terminates (returning on readiness,
\* aborting on end-of-file) against a proxy that answers or exits, and the
\* only runs in which it does not terminate are those where the proxy
\* stays alive and never writes.
C17_HandshakeTerminates ==
    /\ [](pc = "start_read" =>
            /\ status_w = "closed"
            /\ args_w = "closed"
            /\ args_pipe # <<>> => args_pipe[Len(args_pipe)] = NUL)
    /\ [](pc \in StartPcs /\ proxy = "running" /\ args_w # "closed" =>
            pc # "start_read")
    /\ [](pc \in StartPcs =>
            \/ <>(pc \in {"idle", "exited"})
            \/ <>[](pc = "start_read" /\ proxy = "running" /\ status_pipe = 0))

\* start returned on the ready byte of a proxy that is still serving
C17_Witness ==
    /\ pc = "idle"
    /\ last_ret = "start"
    /\ read_bytes = "1"
    /\ proxy = "ready"
    /\ args_w = "closed"
    /\ status_w = "closed"

\* C18: dbus_proxy_stop, called while a proxy runs, closes the status
\* descriptor before it waits for the proxy and clears the handle only
\* after the proxy has been reaped; a non-zero exit code of the proxy only
\* produces a warning and never prevents the fields from being cleared.
C18_TeardownOrder ==
    /\ [](pc = "stop_wait" => status_r = "closed")
    /\ [][(pc = "stop_clear" /\ pc' # pc) => proxy = "exited"]_vars
    /\ [][(pc = "stop_wait" /\ pc' # pc /\ proxy_exit # 0
           /\ exit_status' # 1) =>
             /\ pc' = "stop_clear"
             /\ warnings' \in {warnings, Append(warnings, "proxy_returned")}]_vars
    /\ [][(pc = "stop_clear" /\ pc' = "idle") =>
             /\ dbus_proxy_pid' = 0
             /\ dbus_proxy_status_fd' = -1
             /\ dbus_user_proxy_socket' = NULL
             /\ dbus_system_proxy_socket' = NULL]_vars

\* C19: each proxy socket path is released exactly once: once
\* dbus_apply_policy has released the path of a Filter bus the handle no
\* longer refers to it, so a following dbus_proxy_stop or a second
\* dbus_apply_policy neither releases it again nor reads it.
C19_ReleasedOnce ==
    /\ [](pc \in {"idle", "stop_wait", "stop_clear", "apply_user",
                  "apply_system"} =>
            /\ heap.user = "freed" => dbus_user_proxy_socket = NULL
            /\ heap.system = "freed" => dbus_system_proxy_socket = NULL)
    /\ [][(pc = "stop_clear" /\ pc' # pc) =>
            /\ dbus_user_proxy_socket # NULL => heap.user = "live"
            /\ dbus_system_proxy_socket # NULL => heap.system = "live"]_vars
    /\ [][(pc = "apply_user" /\ pc' = "ov_open") => heap.user = "live"]_vars
    /\ [][(pc = "apply_system" /\ pc' = "ov_open") => heap.system = "live"]_vars

\* C20: the real user-bus address is computed the same way in both places:
\* whatever the environment value (unset, well-formed, or present but not
\* starting with "unix:path="), the address dbus_proxy_start streams to the
\* proxy is the original address dbus_apply_policy computes.
C20_SameRealAddress ==
    (/\ pc = "apply_user"
     /\ arg_dbus_user = "FILTER"
     /\ heap.user = "live"
     /\ args_pipe # <<>>) =>
        Strings(args_pipe)[1] = frame.orig_path
====
